---- MODULE Spec2Model ----
(***************************************************************************)
(* A state-machine model of the DevReplay language server                  *)
(* (src/src/server.ts): the diagnostic publisher, the quick-fix generator  *)
(* and the rule-severity persister, driven by the editor's events.         *)
(*                                                                         *)
(* JavaScript values that the code converts (String(x), Number(x)) are     *)
(* records [kind, str]: kind is the JavaScript type and str the text       *)
(* String(x) yields, so that two different values may convert to the same  *)
(* string.  An optional value (T | undefined) is a sequence of length 0 or *)
(* 1.  File paths are sequences of tokens, compared token by token.        *)
(***************************************************************************)
EXTENDS Integers, Sequences, FiniteSets, TLC

(* ------------------------------ bounds ------------------------------- *)
\* longest rule list the rule file holds
MaxRules == 2
\* highest document version the editor sends
MaxVersion == 2
\* most diagnostics one code-action request carries
MaxDiags == 2
\* largest line and largest character of a lint result's position
MaxLine == 2
MaxChar == 2
\* most consecutive executions of one severity command
MaxRepeat == 4

(* ----------------------- JavaScript values --------------------------- *)
Num0 == [kind |-> "number", str |-> "0"]
Num1 == [kind |-> "number", str |-> "1"]
Str1 == [kind |-> "string", str |-> "1"]
Undef == [kind |-> "undefined", str |-> "undefined"]

\* identifiers a rule of the rule file may carry (ruleId is optional)
RuleIds == {Num0, Num1, Undef}
\* values an editor may send as a command argument or a diagnostic code
ArgValues == RuleIds \cup {Str1}

\* String(x)
String(x) == x.str

\* Number(x) is an integer (not NaN): a number, or a string of digits
IsIntegral(x) == x.kind # "undefined" /\ x.str \in {"0", "1"}

\* Number(x), for the values with IsIntegral(x)
Number(x) == IF x.str = "0" THEN 0 ELSE 1

(* --------------------------- severities ------------------------------ *)
RuleSeverities == {"error", "warning", "information", "hint", "off"}

(* ----------------------------- paths --------------------------------- *)
WorkspacePath == <<"/", "ws">>
FileA == <<"/", "ws", "/", "a.ts">>
FileRules == <<"/", "ws", "/", ".devreplay.json">>
FileGitConfig == <<"/", "ws", "/", ".git", "/", "config">>
URIs == {FileA, FileRules, FileGitConfig}

\* String.prototype.endsWith
EndsWith(s, suffix) ==
    /\ Len(suffix) <= Len(s)
    /\ SubSeq(s, Len(s) - Len(suffix) + 1, Len(s)) = suffix

\* a path has dir as one of its directory components
HasDirectory(p, dir) ==
    \E i \in 1..Len(p) : p[i] = dir /\ i < Len(p) /\ p[i + 1] = "/"

(* ------------------------ state of the server ------------------------ *)
VARIABLES
    initialized,      \* onInitialize has run (it registers the listeners)
    workspaceFolder,  \* WorkspaceFolder | undefined: <<>> or <<path>>
    documents,        \* the TextDocuments manager: URI -> [open, version, text]
    ruleFile,         \* the rule list stored in <workspace>/.devreplay.json
    published,        \* editor side: URI -> last diagnostics publish, <<>> if none
    lastEvent,        \* the event the last handler run served
    threw,            \* the last handler run raised an exception
    sent,             \* publishDiagnostics messages the last handler run sent
    calls,            \* collaborator calls the last handler run made, in order
    returned          \* the value the last request handler returned

vars == <<initialized, workspaceFolder, documents, ruleFile, published,
          lastEvent, threw, sent, calls, returned>>

(* --------------------------- documents ------------------------------- *)
Texts == {<<"foo">>, <<"bar">>, <<"bar", "foo">>}

ClosedDocument == [open |-> FALSE, version |-> 0, text |-> <<>>]

\* every token is three characters wide and followed by one space:
\* the 0-based character offsets at which token i starts and ends
TokenStart(i) == 4 * (i - 1)
TokenEnd(i) == TokenStart(i) + 3

\* TextDocument.getText(range), for a range on line 0
GetText(text, range) ==
    LET covered == {i \in 1..Len(text) :
                      /\ range.start.line = 0
                      /\ range.end.line = 0
                      /\ range.start.character <= TokenStart(i)
                      /\ TokenEnd(i) <= range.end.character}
    IN  IF covered = {} THEN <<>>
        ELSE LET lo == CHOOSE i \in covered : \A j \in covered : i <= j
                 hi == CHOOSE i \in covered : \A j \in covered : j <= i
             IN  SubSeq(text, lo, hi)

(* -------------------- collaborators (package devreplay) -------------- *)
\* positions are 1-based: token i spans characters 4(i-1)+1 .. 4(i-1)+4
LintOut(rule, i) ==
    [rule |-> rule,
     position |-> [start |-> [line |-> 1, character |-> TokenStart(i) + 1],
                   end |-> [line |-> 1, character |-> TokenEnd(i) + 1]]]

RECURSIVE MatchesOf(_, _, _)
\* the results of one rule, one per token "foo", in text order from token i
MatchesOf(rule, text, i) ==
    IF i > Len(text) THEN <<>>
    ELSE (IF text[i] = "foo" THEN <<LintOut(rule, i)>> ELSE <<>>)
         \o MatchesOf(rule, text, i + 1)

RECURSIVE lint(_, _)
\* lint([fileName], ruleFile): the matches of every rule that is not off,
\* in rule-file order; every rule's pattern is the token "foo", and the file
\* holds the text the editor holds
lint(text, rules) ==
    IF rules = <<>> THEN <<>>
    ELSE (IF Head(rules).severity = "off" THEN <<>>
          ELSE MatchesOf(Head(rules), text, 1))
         \o lint(text, Tail(rules))

\* makeSeverity: the rule file's severity as a RuleSeverity
makeSeverity(severity) == severity

\* "foo" replaced by "bar" throughout
Replaced(text) == [i \in 1..Len(text) |-> IF text[i] = "foo" THEN "bar" ELSE text[i]]

\* fixWithRule(text, rule): the new text, or undefined when nothing matches
fixWithRule(text, rule) ==
    IF \E i \in 1..Len(text) : text[i] = "foo" THEN <<Replaced(text)>> ELSE <<>>

\* fixWithRules(text, rules)
fixWithRules(text, rules) ==
    IF rules # <<>> /\ \E i \in 1..Len(text) : text[i] = "foo"
    THEN <<Replaced(text)>> ELSE <<>>

(* ------------------------ diagnostic publisher ----------------------- *)
\* getDevReplayPath: path.join(workspaceFolder!.uri, '.devreplay.json');
\* reading .uri of undefined raises a TypeError
getDevReplayPath(ws) ==
    IF ws = <<>> THEN [threw |-> TRUE, path |-> <<>>]
    ELSE [threw |-> FALSE, path |-> ws[1] \o <<"/", ".devreplay.json">>]

\* lintFile without the test for the rule file's own path
lintFileLintsRuleFile(ws, uri, text, rules) ==
    LET ruleFilePath == getDevReplayPath(ws)
    IN  IF ruleFilePath.threw
        THEN [threw |-> TRUE, results |-> <<>>, calls |-> <<>>]
        ELSE IF EndsWith(uri, <<".git">>)
        THEN [threw |-> FALSE, results |-> <<>>, calls |-> <<>>]
        ELSE [threw |-> FALSE, results |-> lint(text, rules), calls |-> <<"lint">>]

\* lintFile: the lint results of a document, [] for an excluded file
lintFile(ws, uri, text, rules) ==
    LET ruleFilePath == getDevReplayPath(ws)
    IN  IF ruleFilePath.threw
        THEN [threw |-> TRUE, results |-> <<>>, calls |-> <<>>]
        ELSE IF EndsWith(uri, ruleFilePath.path) \/ EndsWith(uri, <<".git">>)
        THEN [threw |-> FALSE, results |-> <<>>, calls |-> <<>>]
        ELSE [threw |-> FALSE, results |-> lint(text, rules), calls |-> <<"lint">>]

\* convertSeverityToDiagnostic whose default returns Hint
convertSeverityDefaultingToHint(severity) ==
    CASE severity = "error" -> "Error"
      [] severity = "warning" -> "Warning"
      [] severity = "information" -> "Information"
      [] severity = "hint" -> "Hint"
      [] OTHER -> "Hint"

\* convertSeverityToDiagnostic
convertSeverityToDiagnostic(severity) ==
    CASE severity = "error" -> "Error"
      [] severity = "warning" -> "Warning"
      [] severity = "information" -> "Information"
      [] severity = "hint" -> "Hint"
      [] OTHER -> "Warning"

\* makeDiagnostic keeping the characters of the range at 0 or above
makeDiagnosticClamping(result) ==
    LET AtLeast0(n) == IF n < 0 THEN 0 ELSE n
    IN  [range |-> [start |-> [line |-> result.position.start.line - 1,
                               character |-> AtLeast0(result.position.start.character - 1)],
                    end |-> [line |-> result.position.end.line - 1,
                             character |-> AtLeast0(result.position.end.character - 1)]],
         severity |-> convertSeverityToDiagnostic(makeSeverity(result.rule.severity)),
         code |-> result.rule.ruleId,
         source |-> "devreplay"]

\* makeDiagnostic; the message (code2String2) and the tags, which no handler
\* reads back, are left out
makeDiagnostic(result) ==
    [range |-> [start |-> [line |-> result.position.start.line - 1,
                           character |-> result.position.start.character - 1],
                end |-> [line |-> result.position.end.line - 1,
                         character |-> result.position.end.character - 1]],
     severity |-> convertSeverityToDiagnostic(makeSeverity(result.rule.severity)),
     code |-> result.rule.ruleId,
     source |-> "devreplay"]

\* the diagnostics validate pushes, one per result, in result order
DiagnosticsOf(results) == [i \in 1..Len(results) |-> makeDiagnostic(results[i])]

\* validate: lint the document and publish its diagnostics
validate(ws, uri, document, rules) ==
    LET linted == lintFile(ws, uri, document.text, rules)
    IN  IF linted.threw
        THEN [threw |-> TRUE, sent |-> <<>>, calls |-> linted.calls]
        ELSE [threw |-> FALSE,
              sent |-> <<[uri |-> uri, version |-> <<document.version>>,
                          diagnostics |-> DiagnosticsOf(linted.results)]>>,
              calls |-> linted.calls]

\* onDidClose publishing a diagnostic for the document it closes
ClearMessageWithADiagnostic(uri) ==
    [uri |-> uri, version |-> <<>>,
     diagnostics |-> <<makeDiagnostic(LintOut([ruleId |-> Num0, severity |-> "warning"], 1))>>]

\* onDidClose: sendDiagnostics({uri, diagnostics: []}), without a version
ClearMessage(uri) == [uri |-> uri, version |-> <<>>, diagnostics |-> <<>>]

\* the editor keeps, for every URI, the last diagnostics published for it
RECURSIVE Deliver(_, _)
Deliver(pub, messages) ==
    IF messages = <<>> THEN pub
    ELSE Deliver([pub EXCEPT ![Head(messages).uri] = <<Head(messages)>>],
                 Tail(messages))

(* ------------------- severity override state machine ----------------- *)
\* EditorRuleSeverity
EditorRuleSeverities == {"error", "warning", "info", "hint", "off", "downgrade", "upgrade"}

\* case upgrade whose inner switch lists off and returns hint for it
UpgradeCaseFromOff(severity) ==
    CASE severity = "off" -> "hint"
      [] severity = "hint" -> "information"
      [] severity = "information" -> "warning"
      [] severity \in {"warning", "error"} -> "error"
      [] OTHER -> severity

\* case upgrade whose inner switch returns warning for warning
UpgradeCaseKeepingWarning(severity) ==
    CASE severity = "hint" -> "information"
      [] severity = "information" -> "warning"
      [] severity = "warning" -> "warning"
      [] severity = "error" -> "error"
      [] OTHER -> severity

\* case upgrade of adjustSeverityForOverride; a severity its inner switch
\* does not list falls through to default
UpgradeCase(severity) ==
    CASE severity = "hint" -> "information"
      [] severity = "information" -> "warning"
      [] severity \in {"warning", "error"} -> "error"
      [] OTHER -> severity

\* case downgrade whose inner switch returns information for information
DowngradeCaseKeepingInformation(severity) ==
    CASE severity = "error" -> "warning"
      [] severity = "warning" -> "information"
      [] severity = "information" -> "information"
      [] severity = "hint" -> "hint"
      [] OTHER -> UpgradeCase(severity)

\* case downgrade whose inner switch does not list hint, which then falls
\* through to case upgrade
DowngradeCaseWithoutHint(severity) ==
    CASE severity = "error" -> "warning"
      [] severity = "warning" -> "information"
      [] severity = "information" -> "hint"
      [] OTHER -> UpgradeCase(severity)

\* case downgrade; a severity its inner switch does not list falls through
\* to case upgrade (there is no break)
DowngradeCase(severity) ==
    CASE severity = "error" -> "warning"
      [] severity = "warning" -> "information"
      [] severity \in {"information", "hint"} -> "hint"
      [] OTHER -> UpgradeCase(severity)

\* adjustSeverityForOverride whose case off does not return and falls
\* through to case downgrade
adjustSeverityOffFallingThrough(severity, severityOverride) ==
    CASE severityOverride = "error" -> "error"
      [] severityOverride = "warning" -> "warning"
      [] severityOverride = "info" -> "information"
      [] severityOverride = "hint" -> "hint"
      [] severityOverride \in {"off", "downgrade"} -> DowngradeCase(severity)
      [] severityOverride = "upgrade" -> UpgradeCase(severity)
      [] OTHER -> severity

\* adjustSeverityForOverride
adjustSeverityForOverride(severity, severityOverride) ==
    CASE severityOverride = "error" -> "error"
      [] severityOverride = "warning" -> "warning"
      [] severityOverride = "info" -> "information"
      [] severityOverride = "hint" -> "hint"
      [] severityOverride = "off" -> "off"
      [] severityOverride = "downgrade" -> DowngradeCase(severity)
      [] severityOverride = "upgrade" -> UpgradeCase(severity)
      [] OTHER -> severity

(* ----------------------- rule-severity persister --------------------- *)
\* the loop of changeRuleSeverity stopping at the first rule it overrides
OverrideFirstMatchOnly(rules, ruleId, editorRuleSeverity) ==
    [i \in 1..Len(rules) |->
        IF /\ String(rules[i].ruleId) = ruleId
           /\ \A j \in 1..(i - 1) : String(rules[j].ruleId) # ruleId
        THEN [rules[i] EXCEPT
                !.severity = adjustSeverityForOverride(@, editorRuleSeverity)]
        ELSE rules[i]]

\* the loop of changeRuleSeverity: ruleId is a string
OverrideRules(rules, ruleId, editorRuleSeverity) ==
    [i \in 1..Len(rules) |->
        IF String(rules[i].ruleId) = ruleId
        THEN [rules[i] EXCEPT
                !.severity = adjustSeverityForOverride(@, editorRuleSeverity)]
        ELSE rules[i]]

\* a write that leaves the file alone when it is not the content read
writeRuleFileUnlessChanged(rules, stored) == stored

\* writeRuleFile(rules, fsPath, false): the content of the rule file after
\* the write, whatever content was stored before it
writeRuleFile(rules, stored) == rules

\* changeRuleSeverity without the test for a workspace folder
changeRuleSeverityUnguarded(ws, rules, ruleId, editorRuleSeverity) ==
    [rules |-> OverrideRules(rules, ruleId, editorRuleSeverity),
     calls |-> <<"readCurrentRules", "writeRuleFile">>]

\* changeRuleSeverity: read the rule list, override, write it back
changeRuleSeverity(ws, rules, ruleId, editorRuleSeverity) ==
    IF ws = <<>>
    THEN [rules |-> rules, calls |-> <<>>]
    ELSE [rules |-> OverrideRules(rules, ruleId, editorRuleSeverity),
          calls |-> <<"readCurrentRules", "writeRuleFile">>]

\* CommandIds
applySingleFix == "devreplay.fix"
applyAllFix == "devreplay.fixall"
applyDisableRule == "devreplay.applyDisableRule"
applyDowngradeSeverity == "devreplay.applyDowngradeSeverity"
applyUpgradeSeverity == "devreplay.applyUpgradeSeverity"

\* params.arguments[0]: undefined past the end of the list
FirstArgument(arguments) == IF Len(arguments) > 0 THEN arguments[1] ELSE Undef

\* onExecuteCommand testing only the arguments, and ending in a plain else
onExecuteCommandAnyCommand(ws, rules, command, arguments) ==
    IF arguments = <<>>
    THEN [rules |-> rules, calls |-> <<>>]
    ELSE LET ruleId == String(FirstArgument(arguments[1]))
         IN  IF command = applyDisableRule
             THEN changeRuleSeverity(ws, rules, ruleId, "off")
             ELSE IF command = applyUpgradeSeverity
             THEN changeRuleSeverity(ws, rules, ruleId, "upgrade")
             ELSE changeRuleSeverity(ws, rules, ruleId, "downgrade")

\* onExecuteCommand; arguments is <<>> (undefined) or <<list>>
onExecuteCommand(ws, rules, command, arguments) ==
    IF \/ (/\ command # applyDisableRule
           /\ command # applyUpgradeSeverity
           /\ command # applyDowngradeSeverity)
       \/ arguments = <<>>
    THEN [rules |-> rules, calls |-> <<>>]
    ELSE LET ruleId == String(FirstArgument(arguments[1]))
         IN  IF command = applyDisableRule
             THEN changeRuleSeverity(ws, rules, ruleId, "off")
             ELSE IF command = applyUpgradeSeverity
             THEN changeRuleSeverity(ws, rules, ruleId, "upgrade")
             ELSE IF command = applyDowngradeSeverity
             THEN changeRuleSeverity(ws, rules, ruleId, "downgrade")
             ELSE [rules |-> rules, calls |-> <<>>]

(* ------------------------- quick-fix generator ----------------------- *)
\* Number.MAX_SAFE_INTEGER (2^53 - 1), here the largest integer of the
\* model checker; it is only ever compared for equality
MAX_SAFE_INTEGER == 2147483647

\* TextDocument.lineCount: the texts of the model are one line long
LineCount(text) == 1

\* createEditByRule
createEditByRule(uri, document, range, rule) ==
    LET newText == fixWithRule(GetText(document.text, range), rule)
    IN  IF newText # <<>>
        THEN [documentChanges |->
                <<[textDocument |-> [uri |-> uri, version |-> document.version],
                   edits |-> <<[range |-> range, newText |-> newText[1]]>>]>>]
        ELSE [documentChanges |-> <<>>]

\* createEditByRules
createEditByRules(uri, document, range, rules) ==
    LET newText == fixWithRules(document.text, rules)
    IN  IF newText # <<>>
        THEN [documentChanges |->
                <<[textDocument |-> [uri |-> uri, version |-> document.version],
                   edits |-> <<[range |-> range, newText |-> newText[1]]>>]>>]
        ELSE [documentChanges |-> <<>>]

\* a CodeAction carrying an edit
EditAction(title, edit, diagnostics, isPreferred) ==
    [title |-> title, edit |-> <<edit>>, command |-> <<>>,
     diagnostics |-> diagnostics, isPreferred |-> isPreferred]

\* a CodeAction carrying Command.create(title, command, arguments)
CommandAction(title, command, arguments, diagnostics) ==
    [title |-> title, edit |-> <<>>,
     command |-> <<[command |-> command, arguments |-> arguments]>>,
     diagnostics |-> diagnostics, isPreferred |-> FALSE]

\* the rule taken from the diagnostic itself, without a look at the list
RuleOfCodeUnresolved(rules, code) == <<[ruleId |-> code, severity |-> "warning"]>>

\* rules[Number(diagnostic.code)]: undefined unless the code converts to an
\* index of the list
RuleOfCode(rules, code) ==
    IF IsIntegral(code) /\ Number(code) + 1 \in 1..Len(rules)
    THEN <<rules[Number(code) + 1]>>
    ELSE <<>>

\* one pass of the forEach of onCodeAction; reading .ruleId of an undefined
\* rule raises a TypeError.  The fix action's title (makeFixTitle, from the
\* diagnostic's message) is the default one
ActionsOfDiagnostic(uri, document, rules, diagnostic) ==
    LET rule == RuleOfCode(rules, diagnostic.code)
    IN  IF rule = <<>>
        THEN [threw |-> TRUE, actions |-> <<>>]
        ELSE [threw |-> FALSE,
              actions |->
                <<EditAction("Fix by DevReplay",
                             createEditByRule(uri, document, diagnostic.range, rule[1]),
                             <<diagnostic>>, TRUE),
                  CommandAction("Disable Rule", applyDisableRule,
                                <<rule[1].ruleId>>, <<diagnostic>>),
                  CommandAction("Upgrade Rule Severity", applyUpgradeSeverity,
                                <<rule[1].ruleId>>, <<diagnostic>>),
                  CommandAction("Downgrade Rule Severity", applyDowngradeSeverity,
                                <<rule[1].ruleId>>, <<diagnostic>>)>>]

RECURSIVE ActionsOfDiagnostics(_, _, _, _)
\* diagnostics.forEach(...): the actions pushed, unless a pass throws
ActionsOfDiagnostics(uri, document, rules, diagnostics) ==
    IF diagnostics = <<>> THEN [threw |-> FALSE, actions |-> <<>>]
    ELSE LET first == ActionsOfDiagnostic(uri, document, rules, Head(diagnostics))
             rest == ActionsOfDiagnostics(uri, document, rules, Tail(diagnostics))
         IN  IF first.threw \/ rest.threw
             THEN [threw |-> TRUE, actions |-> <<>>]
             ELSE [threw |-> FALSE, actions |-> first.actions \o rest.actions]

\* the diagnostics of the request taken whatever their source
AnySourceDiagnostics(diagnostics) == diagnostics

\* params.context.diagnostics.filter((diag) => diag.source === 'devreplay')
OwnDiagnostics(diagnostics) == SelectSeq(diagnostics, LAMBDA d : d.source = "devreplay")

\* onCodeAction; returned is <<list>>, or <<>> when the handler throws
onCodeAction(ws, docs, rules, uri, requestDiagnostics) ==
    LET diagnostics == OwnDiagnostics(requestDiagnostics)
        textDocument == docs[uri]
        range == [start |-> [line |-> 0, character |-> 0],
                  end |-> [line |-> LineCount(textDocument.text) - 1,
                           character |-> MAX_SAFE_INTEGER]]
        allCommand == EditAction("Apply all fixes",
                                 createEditByRules(uri, textDocument, range, rules),
                                 diagnostics, FALSE)
        each == ActionsOfDiagnostics(uri, textDocument, rules, diagnostics)
    IN  IF diagnostics = <<>>
        THEN [threw |-> FALSE, returned |-> << <<>> >>, calls |-> <<>>]
        ELSE IF ~textDocument.open
        THEN [threw |-> FALSE, returned |-> << <<>> >>, calls |-> <<>>]
        ELSE IF ws = <<>>
        THEN [threw |-> FALSE, returned |-> << <<>> >>, calls |-> <<>>]
        ELSE IF each.threw
        THEN [threw |-> TRUE, returned |-> <<>>, calls |-> <<"readCurrentRules">>]
        ELSE [threw |-> FALSE, returned |-> << <<allCommand>> \o each.actions >>,
              calls |-> <<"readCurrentRules">>]

(* --------------------------- editor inputs --------------------------- *)
RECURSIVE SeqsUpTo(_, _)
\* the sequences over S of length at most n
SeqsUpTo(S, n) ==
    IF n = 0 THEN {<<>>}
    ELSE LET shorter == SeqsUpTo(S, n - 1)
         IN  shorter \cup {Append(q, x) : q \in shorter, x \in S}

\* the rule lists of at most MaxRules rules with the given identifiers and
\* severities
RuleLists(ids, severities) ==
    SeqsUpTo([ruleId : ids, severity : severities], MaxRules)

\* params.workspaceFolders of the initialize request
WorkspaceFolderLists == {<<>>, <<WorkspacePath>>}

\* the 0-based range of token i
TokenRange(i) ==
    [start |-> [line |-> 0, character |-> TokenStart(i)],
     end |-> [line |-> 0, character |-> TokenEnd(i)]]

\* diagnostics a code-action request may carry: this server's (fresh or
\* stale) and another source's
RequestDiagnostics ==
    {[range |-> TokenRange(1), severity |-> "Warning", code |-> c, source |-> "devreplay"] :
        c \in ArgValues}
    \cup {[range |-> TokenRange(2), severity |-> "Warning", code |-> Num0, source |-> "devreplay"],
          [range |-> TokenRange(1), severity |-> "Error", code |-> Num0, source |-> "eslint"]}

Commands == {applySingleFix, applyAllFix, applyDisableRule,
             applyDowngradeSeverity, applyUpgradeSeverity, "unknown.command"}

\* params.arguments: undefined, [] or [value]
ArgumentLists == {<<>>, << <<>> >>} \cup {<< <<v>> >> : v \in ArgValues}

\* the values of the parameter severityOverride: an EditorRuleSeverity, a
\* string that is none, or "undefined" for the parameter left out
SeverityOverrides == EditorRuleSeverities \cup {"unrecognized", "undefined"}

\* the values of the parameter severity of convertSeverityToDiagnostic: a
\* RuleSeverity, a string that is none, or "undefined"
SeverityInputs == RuleSeverities \cup {"unrecognized", "undefined"}

\* LintOut.position: 1-based lines, and characters from 0
Positions == [line : 1..MaxLine, character : 0..MaxChar]

\* the lint results makeDiagnostic may be given
LintOuts ==
    {[rule |-> [ruleId |-> Num0, severity |-> severity],
      position |-> [start |-> start, end |-> end]] :
        severity \in RuleSeverities, start \in Positions, end \in Positions}

Event(kind, uri, command, arguments, diagnostics) ==
    [kind |-> kind, uri |-> uri, command |-> command,
     arguments |-> arguments, diagnostics |-> diagnostics]

NoEvent == Event("none", <<>>, "", <<>>, <<>>)

(* ------------------------------ actions ------------------------------ *)
\* the server after construction, with rules as the rule file's content
InitWith(rules) ==
    /\ initialized = FALSE
    /\ workspaceFolder = <<>>
    /\ documents = [u \in URIs |-> ClosedDocument]
    /\ ruleFile \in rules
    /\ published = [u \in URIs |-> <<>>]
    /\ lastEvent = NoEvent
    /\ threw = FALSE
    /\ sent = <<>>
    /\ calls = <<>>
    /\ returned = <<>>

\* the connection takes one message at a time: a handler runs when the
\* connection waits for a message
Waiting == lastEvent = NoEvent

\* the handler has returned (or thrown) and the connection waits again
Await ==
    /\ ~Waiting
    /\ lastEvent' = NoEvent
    /\ threw' = FALSE
    /\ sent' = <<>>
    /\ calls' = <<>>
    /\ returned' = <<>>
    /\ UNCHANGED <<initialized, workspaceFolder, documents, ruleFile, published>>

\* connection.onInitialize
Initialize(folders) ==
    /\ Waiting
    /\ ~initialized
    /\ initialized' = TRUE
    /\ workspaceFolder' = IF Len(folders) > 0 THEN <<folders[1]>> ELSE workspaceFolder
    /\ lastEvent' = Event("initialize", <<>>, "", <<>>, <<>>)
    /\ threw' = FALSE
    /\ sent' = <<>>
    /\ calls' = <<>>
    /\ returned' = <<>>
    /\ UNCHANGED <<documents, ruleFile, published>>

\* the listeners that call validate, on the manager's document docs[uri]
Validated(kind, uri, docs) ==
    LET out == validate(workspaceFolder, uri, docs[uri], ruleFile)
    IN  /\ documents' = docs
        /\ lastEvent' = Event(kind, uri, "", <<>>, <<>>)
        /\ threw' = out.threw
        /\ sent' = out.sent
        /\ calls' = out.calls
        /\ published' = Deliver(published, out.sent)
        /\ returned' = <<>>
        /\ UNCHANGED <<initialized, workspaceFolder, ruleFile>>

\* documents.onDidOpen
DidOpen(uri, text) ==
    /\ Waiting
    /\ initialized
    /\ ~documents[uri].open
    /\ Validated("open", uri,
                 [documents EXCEPT ![uri] = [open |-> TRUE, version |-> 1, text |-> text]])

\* documents.onDidChangeContent
DidChangeContent(uri, text) ==
    /\ Waiting
    /\ initialized
    /\ documents[uri].open
    /\ documents[uri].version < MaxVersion
    /\ Validated("change", uri,
                 [documents EXCEPT ![uri].version = @ + 1, ![uri].text = text])

\* documents.onDidSave
DidSave(uri) ==
    /\ Waiting
    /\ initialized
    /\ documents[uri].open
    /\ Validated("save", uri, documents)

\* documents.onDidClose
DidClose(uri) ==
    /\ Waiting
    /\ initialized
    /\ documents[uri].open
    /\ documents' = [documents EXCEPT ![uri] = ClosedDocument]
    /\ lastEvent' = Event("close", uri, "", <<>>, <<>>)
    /\ threw' = FALSE
    /\ sent' = <<ClearMessage(uri)>>
    /\ calls' = <<>>
    /\ published' = Deliver(published, <<ClearMessage(uri)>>)
    /\ returned' = <<>>
    /\ UNCHANGED <<initialized, workspaceFolder, ruleFile>>

\* connection.onCodeAction
CodeAction(uri, diagnostics) ==
    LET out == onCodeAction(workspaceFolder, documents, ruleFile, uri, diagnostics)
    IN  /\ Waiting
        /\ initialized
        /\ lastEvent' = Event("codeAction", uri, "", <<>>, diagnostics)
        /\ threw' = out.threw
        /\ sent' = <<>>
        /\ calls' = out.calls
        /\ returned' = out.returned
        /\ UNCHANGED <<initialized, workspaceFolder, documents, ruleFile, published>>

\* connection.onExecuteCommand validating the open documents again after
\* the command
ExecuteCommandValidating(command, arguments) ==
    LET out == onExecuteCommand(workspaceFolder, ruleFile, command, arguments)
        again == IF documents[FileA].open
                 THEN validate(workspaceFolder, FileA, documents[FileA], out.rules)
                 ELSE [threw |-> FALSE, sent |-> <<>>, calls |-> <<>>]
    IN  /\ Waiting
        /\ initialized
        /\ ruleFile' = out.rules
        /\ lastEvent' = Event("executeCommand", <<>>, command, arguments, <<>>)
        /\ threw' = again.threw
        /\ sent' = again.sent
        /\ calls' = out.calls \o again.calls
        /\ published' = Deliver(published, again.sent)
        /\ returned' = <<>>
        /\ UNCHANGED <<initialized, workspaceFolder, documents>>

\* connection.onExecuteCommand
ExecuteCommand(command, arguments) ==
    LET out == onExecuteCommand(workspaceFolder, ruleFile, command, arguments)
    IN  /\ Waiting
        /\ initialized
        /\ ruleFile' = out.rules
        /\ lastEvent' = Event("executeCommand", <<>>, command, arguments, <<>>)
        /\ threw' = FALSE
        /\ sent' = <<>>
        /\ calls' = out.calls
        /\ returned' = <<>>
        /\ UNCHANGED <<initialized, workspaceFolder, documents, published>>

\* another program writes the rule file while the server waits
ExternalEdit(rules) ==
    /\ Waiting
    /\ ruleFile' = rules
    /\ UNCHANGED <<initialized, workspaceFolder, documents, published,
                   lastEvent, threw, sent, calls, returned>>

\* connection.onExecuteCommand for a request that reads and writes the rule
\* file, another program storing external between readCurrentRules and
\* writeRuleFile
ExecuteCommandDuringExternalWrite(command, arguments, external) ==
    LET out == onExecuteCommand(workspaceFolder, ruleFile, command, arguments)
    IN  /\ Waiting
        /\ initialized
        /\ out.calls = <<"readCurrentRules", "writeRuleFile">>
        /\ ruleFile' = writeRuleFile(out.rules, external)
        /\ lastEvent' = Event("executeCommand", <<>>, command, arguments, <<>>)
        /\ threw' = FALSE
        /\ sent' = <<>>
        /\ calls' = <<"readCurrentRules", "externalWrite", "writeRuleFile">>
        /\ returned' = <<>>
        /\ UNCHANGED <<initialized, workspaceFolder, documents, published>>

\* a direct call of adjustSeverityForOverride(severity, severityOverride);
\* returned holds the severity it returns
AdjustSeverity(severity, severityOverride) ==
    /\ Waiting
    /\ lastEvent' = Event("call", <<>>, "adjustSeverityForOverride",
                          << <<severity, severityOverride>> >>, <<>>)
    /\ threw' = FALSE
    /\ sent' = <<>>
    /\ calls' = <<>>
    /\ returned' = <<[severity |-> adjustSeverityForOverride(severity, severityOverride)]>>
    /\ UNCHANGED <<initialized, workspaceFolder, documents, ruleFile, published>>

\* a direct call of convertSeverityToDiagnostic(severity); the event holds
\* the severity it is given and returned the DiagnosticSeverity it returns
ConvertSeverityToDiagnostic(severity) ==
    /\ Waiting
    /\ lastEvent' = Event("call", <<>>, "convertSeverityToDiagnostic",
                          << <<[severity |-> severity]>> >>, <<>>)
    /\ threw' = FALSE
    /\ sent' = <<>>
    /\ calls' = <<>>
    /\ returned' = <<[severity |-> convertSeverityToDiagnostic(severity)]>>
    /\ UNCHANGED <<initialized, workspaceFolder, documents, ruleFile, published>>

\* a direct call of makeDiagnostic(result)
MakeDiagnostic(result) ==
    /\ Waiting
    /\ lastEvent' = Event("call", <<>>, "makeDiagnostic", << <<result>> >>, <<>>)
    /\ threw' = FALSE
    /\ sent' = <<>>
    /\ calls' = <<>>
    /\ returned' = <<makeDiagnostic(result)>>
    /\ UNCHANGED <<initialized, workspaceFolder, documents, ruleFile, published>>

(* --------------------------- specifications -------------------------- *)
\* the diagnostic publisher: document events over every file
PublisherTexts == {<<"foo">>, <<"bar", "foo">>}
PublisherSeverities == {"error", "warning", "off"}

InitPublisher == InitWith(RuleLists({Num0}, PublisherSeverities))

NextPublisher ==
    \/ \E folders \in WorkspaceFolderLists : Initialize(folders)
    \/ \E uri \in URIs, text \in PublisherTexts : DidOpen(uri, text)
    \/ \E uri \in URIs, text \in PublisherTexts : DidChangeContent(uri, text)
    \/ \E uri \in URIs : DidSave(uri)
    \/ \E uri \in URIs : DidClose(uri)
    \/ Await

SpecPublisher == InitPublisher /\ [][NextPublisher]_vars

\* the rule-severity persister: command execution over every rule file
InitCommands == InitWith(RuleLists(RuleIds, RuleSeverities))

NextCommands ==
    \/ \E folders \in WorkspaceFolderLists : Initialize(folders)
    \/ \E command \in Commands, arguments \in ArgumentLists :
          ExecuteCommand(command, arguments)
    \/ Await

SpecCommands == InitCommands /\ [][NextCommands]_vars

\* the quick-fix generator: code-action requests on one source file
InitCodeAction == InitWith(RuleLists(RuleIds, {"warning"}))

NextCodeAction ==
    \/ \E folders \in WorkspaceFolderLists : Initialize(folders)
    \/ \E text \in Texts : DidOpen(FileA, text)
    \/ DidClose(FileA)
    \/ \E uri \in {FileA, FileRules},
          diagnostics \in SeqsUpTo(RequestDiagnostics, MaxDiags) :
          CodeAction(uri, diagnostics)
    \/ Await

SpecCodeAction == InitCodeAction /\ [][NextCodeAction]_vars

\* a server started without a workspace folder
NextNoWorkspace ==
    \/ Initialize(<<>>)
    \/ \E text \in Texts : DidOpen(FileA, text)
    \/ DidClose(FileA)
    \/ \E uri \in {FileA, FileRules},
          diagnostics \in SeqsUpTo(RequestDiagnostics, MaxDiags) :
          CodeAction(uri, diagnostics)
    \/ \E command \in Commands, arguments \in ArgumentLists :
          ExecuteCommand(command, arguments)
    \/ Await

SpecNoWorkspace == InitCodeAction /\ [][NextNoWorkspace]_vars

\* the pure functions, called directly
NextFunctions ==
    \/ \E severity \in RuleSeverities, severityOverride \in SeverityOverrides :
          AdjustSeverity(severity, severityOverride)
    \/ \E severity \in SeverityInputs : ConvertSeverityToDiagnostic(severity)
    \/ \E result \in LintOuts : MakeDiagnostic(result)
    \/ Await

SpecFunctions == InitWith({<<>>}) /\ [][NextFunctions]_vars

\* one editing session: a source file with a match of every rule, the
\* severity commands and code-action requests; every rule starts at warning
InitSession == InitWith(RuleLists({Num0}, {"warning"}))

NextSession ==
    \/ \E folders \in WorkspaceFolderLists : Initialize(folders)
    \/ DidOpen(FileA, <<"foo">>)
    \/ \E text \in PublisherTexts : DidChangeContent(FileA, text)
    \/ DidSave(FileA)
    \/ DidClose(FileA)
    \/ \E command \in Commands, arguments \in ArgumentLists :
          ExecuteCommand(command, arguments)
    \/ \E diagnostics \in SeqsUpTo(RequestDiagnostics, MaxDiags) :
          CodeAction(FileA, diagnostics)
    \/ Await

SpecSession == InitSession /\ [][NextSession]_vars

\* the severity override state machine, called directly and driven by the
\* severity commands
NextSeverity ==
    \/ \E folders \in WorkspaceFolderLists : Initialize(folders)
    \/ \E severity \in RuleSeverities, severityOverride \in SeverityOverrides :
          AdjustSeverity(severity, severityOverride)
    \/ \E command \in Commands, arguments \in ArgumentLists :
          ExecuteCommand(command, arguments)
    \/ Await

SpecSeverity == InitCommands /\ [][NextSeverity]_vars

\* the rule file shared with another program: it is empty at first and the
\* other program stores rule lists, before a command or in the middle of one
ExternalRuleLists == RuleLists({Num0}, {"warning", "hint"})

NextExternalWriter ==
    \/ \E folders \in WorkspaceFolderLists : Initialize(folders)
    \/ \E rules \in ExternalRuleLists : ExternalEdit(rules)
    \/ \E command \in Commands, arguments \in ArgumentLists :
          ExecuteCommand(command, arguments)
    \/ \E command \in Commands, arguments \in ArgumentLists,
          external \in ExternalRuleLists :
          ExecuteCommandDuringExternalWrite(command, arguments, external)
    \/ Await

SpecExternalWriter == InitWith({<<>>}) /\ [][NextExternalWriter]_vars

(* ============================== claims =============================== *)
\* the last handler run served a document open, content-change or save
ValidateEvent == lastEvent.kind \in {"open", "change", "save"}

\* C1: every document open, content-change and save event produces exactly
\* one diagnostics publish, for the document's URI, carrying the document's
\* current version and one diagnostic per lint result in lint order, and
\* that publish is the last one the editor holds for the URI.
C1_EveryEventPublishesOnce ==
    ValidateEvent =>
        LET uri == lastEvent.uri
            results == lintFile(workspaceFolder, uri, documents[uri].text, ruleFile).results
        IN  /\ Len(sent) = 1
            /\ sent[1].uri = uri
            /\ sent[1].version = <<documents[uri].version>>
            /\ Len(sent[1].diagnostics) = Len(results)
            /\ \A i \in 1..Len(sent[1].diagnostics) :
                  sent[1].diagnostics[i] = makeDiagnostic(results[i])
            /\ published[uri] = <<sent[1]>>

\* C7: with no workspace folder configured, a document open, content-change
\* or save event raises no exception and publishes no diagnostics.
C7_NoWorkspaceValidateDoesNotThrow ==
    (ValidateEvent /\ workspaceFolder = <<>>) =>
        /\ ~threw
        /\ \A i \in 1..Len(sent) : sent[i].diagnostics = <<>>

\* C9: a document under a .git directory always yields zero diagnostics and
\* is never passed to the lint subsystem.
C9_GitDocumentsNeverLinted ==
    (ValidateEvent /\ HasDirectory(lastEvent.uri, ".git")) =>
        /\ calls = <<>>
        /\ \A i \in 1..Len(sent) : sent[i].diagnostics = <<>>

\* C10: a document whose path is the rule-file path of the workspace
\* (<workspaceFolder>/.devreplay.json) yields, on open, change and save, one
\* publish with no diagnostics whatever its content, and lint is not invoked.
C10_RuleFileYieldsEmptyPublish ==
    (/\ ValidateEvent
     /\ workspaceFolder # <<>>
     /\ lastEvent.uri = workspaceFolder[1] \o <<"/", ".devreplay.json">>) =>
        /\ ~threw
        /\ calls = <<>>
        /\ sent = <<[uri |-> lastEvent.uri,
                     version |-> <<documents[lastEvent.uri].version>>,
                     diagnostics |-> <<>>]>>
        /\ published[lastEvent.uri] = sent

\* C10 witness: the rule file was changed in the editor to a text that a
\* rule which is not off matches
C10_Witness ==
    /\ lastEvent.kind = "change"
    /\ lastEvent.uri = FileRules
    /\ workspaceFolder = <<WorkspacePath>>
    /\ lint(documents[FileRules].text, ruleFile) # <<>>
    /\ published[FileRules] # <<>>

\* the commands the server executes, and the override each applies
SeverityCommandIds == {applyDisableRule, applyUpgradeSeverity, applyDowngradeSeverity}

OverrideOfCommand(command) ==
    CASE command = applyDisableRule -> "off"
      [] command = applyUpgradeSeverity -> "upgrade"
      [] command = applyDowngradeSeverity -> "downgrade"

\* this step runs a severity command with the one argument x in a workspace
SeverityCommandStep(x) ==
    /\ lastEvent'.kind = "executeCommand"
    /\ lastEvent'.command \in SeverityCommandIds
    /\ lastEvent'.arguments = << <<x>> >>
    /\ workspaceFolder # <<>>

\* the rule list after the step is the list before it, in the same order,
\* with the command's override applied to the rules at the positions matching
OverrideApplied(matching) ==
    /\ Len(ruleFile') = Len(ruleFile)
    /\ \A i \in 1..Len(ruleFile) :
          /\ ruleFile'[i].ruleId = ruleFile[i].ruleId
          /\ ruleFile'[i].severity =
                IF i \in matching
                THEN adjustSeverityForOverride(ruleFile[i].severity,
                                               OverrideOfCommand(lastEvent'.command))
                ELSE ruleFile[i].severity

\* C4: executing a severity command with rule identifier X overrides the
\* severity of every rule whose identifier equals X, leaves every rule whose
\* identifier differs from X as it was, and writes back a list of the same
\* length and order.
C4_OverridesExactlyTheRulesEqualToX ==
    [][\A x \in ArgValues :
          SeverityCommandStep(x) =>
              OverrideApplied({i \in 1..Len(ruleFile) : ruleFile[i].ruleId = x})]_vars

\* C4, amended: the rules overridden are those whose identifier converts to
\* the same string as X; every other rule is left as it was, and the list
\* keeps its length and order.
C4_OverridesTheRulesWithTheStringOfX ==
    [][\A x \in ArgValues :
          SeverityCommandStep(x) =>
              OverrideApplied({i \in 1..Len(ruleFile) :
                                  String(ruleFile[i].ruleId) = String(x)})]_vars

\* C4 witness: disable-rule has run with the identifier of the first of two
\* rules, which is now off, while the second rule, of another identifier,
\* is not
C4_Witness ==
    /\ lastEvent.kind = "executeCommand"
    /\ lastEvent.command = applyDisableRule
    /\ lastEvent.arguments = << <<Num0>> >>
    /\ calls = <<"readCurrentRules", "writeRuleFile">>
    /\ Len(ruleFile) = 2
    /\ ruleFile[1] = [ruleId |-> Num0, severity |-> "off"]
    /\ ruleFile[2] = [ruleId |-> Num1, severity |-> "hint"]

\* C5: an execute-command request whose arguments are missing (no argument
\* list, or no first element) changes no rule's stored severity and raises
\* no error.
C5_MissingArgumentsHaveNoEffect ==
    [][(/\ lastEvent'.kind = "executeCommand"
        /\ lastEvent'.arguments \in {<<>>, << <<>> >>}) =>
          (ruleFile' = ruleFile /\ ~threw')]_vars

\* C6: an execute-command request whose command is not disable-rule,
\* upgrade-severity or downgrade-severity neither reads nor writes the rule
\* file and leaves every rule's severity unchanged.
C6_OtherCommandsLeaveTheRuleFile ==
    [][(/\ lastEvent'.kind = "executeCommand"
        /\ lastEvent'.command \notin SeverityCommandIds) =>
          (ruleFile' = ruleFile /\ calls' = <<>> /\ ~threw')]_vars

\* C6 witness: apply-single-fix was executed, in a workspace, with the
\* identifier of a stored rule that is not off
C6_Witness ==
    /\ lastEvent.kind = "executeCommand"
    /\ lastEvent.command = applySingleFix
    /\ lastEvent.arguments = << <<Num0>> >>
    /\ workspaceFolder # <<>>
    /\ \E i \in 1..Len(ruleFile) :
          ruleFile[i].ruleId = Num0 /\ ruleFile[i].severity = "warning"

\* the last handler run served a code-action request that reached action
\* building: an own-source diagnostic, the document open, a workspace set
ActionBuilding ==
    /\ lastEvent.kind = "codeAction"
    /\ OwnDiagnostics(lastEvent.diagnostics) # <<>>
    /\ documents[lastEvent.uri].open
    /\ workspaceFolder # <<>>

\* C2: in a code-action request that reaches action building, every
\* disable-rule, upgrade-severity and downgrade-severity command built for
\* a diagnostic carries as its sole argument the identifier that is the
\* diagnostic's code, the identifier of the rule that produced it.
C2_CommandsCarryTheDiagnosticsRule ==
    (ActionBuilding /\ returned # <<>>) =>
        \A i \in 1..Len(returned[1]) :
            returned[1][i].command # <<>> =>
                returned[1][i].command[1].arguments
                    = <<returned[1][i].diagnostics[1].code>>

\* C3: a code-action request does not fail when a diagnostic's code does
\* not resolve to a current rule: it returns an action list.
C3_UnresolvedCodeDoesNotFail ==
    ActionBuilding => (~threw /\ returned # <<>>)

\* C8: with no workspace folder configured, a severity command neither
\* reads nor writes the rule file, a code-action request returns an empty
\* action list, and neither raises an error.
C8_NoWorkspaceNoOps ==
    workspaceFolder = <<>> =>
        /\ lastEvent.kind = "executeCommand" => (calls = <<>> /\ ~threw)
        /\ lastEvent.kind = "codeAction" =>
              (returned = << <<>> >> /\ calls = <<>> /\ ~threw)

\* C8 witness: without a workspace folder, disable-rule was executed with
\* the identifier of a stored rule that is not off, a document being open
C8_Witness ==
    /\ initialized
    /\ workspaceFolder = <<>>
    /\ lastEvent.kind = "executeCommand"
    /\ lastEvent.command = applyDisableRule
    /\ lastEvent.arguments = << <<Num0>> >>
    /\ documents[FileA].open
    /\ \E i \in 1..Len(ruleFile) :
          ruleFile[i].ruleId = Num0 /\ ruleFile[i].severity # "off"

\* the last step was a direct call of adjustSeverityForOverride
AdjustCall ==
    /\ lastEvent.kind = "call"
    /\ lastEvent.command = "adjustSeverityForOverride"

\* the transition table of the severity override state machine; off under
\* upgrade and downgrade is not in the table
TransitionTable(severity, override) ==
    CASE override \in {"error", "warning", "hint", "off"} -> {override}
      [] override = "info" -> {"information"}
      [] override = "upgrade" /\ severity = "hint" -> {"information"}
      [] override = "upgrade" /\ severity = "information" -> {"warning"}
      [] override = "upgrade" /\ severity \in {"warning", "error"} -> {"error"}
      [] override = "downgrade" /\ severity = "error" -> {"warning"}
      [] override = "downgrade" /\ severity = "warning" -> {"information"}
      [] override = "downgrade" /\ severity \in {"information", "hint"} -> {"hint"}
      [] override \in {"upgrade", "downgrade"} /\ severity = "off" -> RuleSeverities
      [] OTHER -> {severity}

\* C11: the severity override function returns a severity for every pair of
\* a current severity (error, warning, information, hint, off) and an
\* override, and the severity is the one of the transition table: the level
\* of an explicit override; one step up for upgrade, error staying error;
\* one step down for downgrade, hint staying hint; the current severity for
\* an unrecognized or absent override.
C11_OverrideMatchesTheTransitionTable ==
    AdjustCall =>
        /\ Len(returned) = 1
        /\ returned[1].severity \in RuleSeverities
        /\ returned[1].severity \in TransitionTable(lastEvent.arguments[1][1],
                                                    lastEvent.arguments[1][2])

\* C11 witness: hint was downgraded and stayed hint
C11_Witness ==
    /\ AdjustCall
    /\ lastEvent.arguments = << <<"hint", "downgrade">> >>
    /\ returned = <<[severity |-> "hint"]>>

\* C12: a code-action request whose diagnostics all carry a source other
\* than 'devreplay' returns an empty action list without reading the rule
\* file, and in a mixed request no diagnostic of another source appears in
\* the diagnostics of any returned action.
C12_ForeignDiagnosticsAreIgnored ==
    lastEvent.kind = "codeAction" =>
        /\ (\A i \in 1..Len(lastEvent.diagnostics) :
                lastEvent.diagnostics[i].source # "devreplay") =>
              (returned = << <<>> >> /\ calls = <<>> /\ ~threw)
        /\ returned # <<>> =>
              \A i \in 1..Len(returned[1]) :
                  \A j \in 1..Len(returned[1][i].diagnostics) :
                      returned[1][i].diagnostics[j].source = "devreplay"

\* C12 witness: a request with a diagnostic of another source and one of
\* this server's, on an open document in a workspace, returned actions
C12_Witness ==
    /\ lastEvent.kind = "codeAction"
    /\ Len(lastEvent.diagnostics) = 2
    /\ lastEvent.diagnostics[1].source = "eslint"
    /\ lastEvent.diagnostics[2].source = "devreplay"
    /\ returned # <<>>
    /\ Len(returned[1]) = 5

\* C13: a code-action request with n >= 1 diagnostics of this server, on an
\* open document, with a workspace set, returns exactly 1 + 4n actions: one
\* apply-all-fixes action carrying all n diagnostics, then for each
\* diagnostic, in request order, a single-fix action, a disable-rule
\* command, an upgrade-severity command and a downgrade-severity command,
\* each carrying that one diagnostic.
C13_OneActionPlusFourPerDiagnostic ==
    ActionBuilding =>
        LET own == SelectSeq(lastEvent.diagnostics,
                             LAMBDA d : d.source = "devreplay")
            commandOf(k) == <<applyDisableRule, applyUpgradeSeverity,
                              applyDowngradeSeverity>>[k]
        IN  /\ returned # <<>>
            /\ Len(returned[1]) = 1 + 4 * Len(own)
            /\ returned[1][1].edit # <<>>
            /\ returned[1][1].diagnostics = own
            /\ \A n \in 1..Len(own) :
                  /\ returned[1][4 * n - 2].edit # <<>>
                  /\ \A k \in 1..3 :
                        /\ returned[1][4 * n - 2 + k].command # <<>>
                        /\ returned[1][4 * n - 2 + k].command[1].command = commandOf(k)
                  /\ \A k \in 0..3 :
                        returned[1][4 * n - 2 + k].diagnostics = <<own[n]>>

\* C14: closing a document publishes an empty diagnostic list for the
\* document's URI and for no other; the editor then holds the empty list
\* for that URI, and what it holds for a URI changes only with an open,
\* change, save or close event of that URI.
C14_CloseClearsTheDiagnostics ==
    [][/\ lastEvent'.kind = "close" =>
            /\ Len(sent') = 1
            /\ sent'[1].uri = lastEvent'.uri
            /\ sent'[1].diagnostics = <<>>
            /\ published'[lastEvent'.uri] = <<sent'[1]>>
       /\ \A u \in URIs :
            ~(/\ lastEvent'.kind \in {"open", "change", "save", "close"}
              /\ lastEvent'.uri = u) =>
                published'[u] = published[u]]_vars

\* C14 witness: a document was closed while another document's diagnostics
\* are held by the editor
C14_Witness ==
    /\ lastEvent.kind = "close"
    /\ lastEvent.uri = FileA
    /\ published[FileA] = <<[uri |-> FileA, version |-> <<>>, diagnostics |-> <<>>]>>
    /\ \E u \in URIs \ {FileA} :
          /\ published[u] # <<>>
          /\ published[u][1].diagnostics # <<>>

\* C15: in a workspace, executing upgrade-severity with the identifier of a
\* rule stored at warning stores that rule at error; and every publish for
\* a document that a rule stored at error matches carries that rule's
\* diagnostic at Error severity, so the next publish after the command does.
C15_UpgradedWarningIsPublishedAsError ==
    [][/\ \A x \in ArgValues :
            (/\ lastEvent'.kind = "executeCommand"
             /\ lastEvent'.command = applyUpgradeSeverity
             /\ lastEvent'.arguments = << <<x>> >>
             /\ workspaceFolder # <<>>) =>
                /\ Len(ruleFile') = Len(ruleFile)
                /\ \A i \in 1..Len(ruleFile) :
                      (ruleFile[i].ruleId = x /\ ruleFile[i].severity = "warning") =>
                          ruleFile'[i] = [ruleId |-> x, severity |-> "error"]
       /\ (lastEvent'.kind \in {"open", "change", "save"} /\ sent' # <<>>) =>
            /\ published'[lastEvent'.uri] = sent'
            /\ \A i \in 1..Len(ruleFile') :
                  (/\ ruleFile'[i].severity = "error"
                   /\ lint(documents'[lastEvent'.uri].text, <<ruleFile'[i]>>) # <<>>) =>
                      \E j \in 1..Len(sent'[1].diagnostics) :
                          /\ sent'[1].diagnostics[j].code = ruleFile'[i].ruleId
                          /\ sent'[1].diagnostics[j].severity = "Error"]_vars

\* C15 witness: every rule starts at warning, so a rule at error was
\* upgraded; a later event published its diagnostic at Error
C15_Witness ==
    /\ lastEvent.kind = "save"
    /\ ruleFile = <<[ruleId |-> Num0, severity |-> "error"]>>
    /\ published[FileA] # <<>>
    /\ published[FileA][1].diagnostics # <<>>
    /\ published[FileA][1].diagnostics[1].severity = "Error"

\* C16: an explicit-level override (error, warning, information, hint, off)
\* is idempotent: applied to the severity it returned, for whatever current
\* severity, it returns that severity again; and executing disable-rule
\* again with the same arguments leaves the rule file as the first
\* execution left it.
C16_ExplicitOverridesAreIdempotent ==
    /\ (AdjustCall /\ lastEvent.arguments[1][2] \in {"error", "warning", "info", "hint", "off"}) =>
          adjustSeverityForOverride(returned[1].severity, lastEvent.arguments[1][2])
              = returned[1].severity
    /\ (lastEvent.kind = "executeCommand" /\ lastEvent.command = applyDisableRule) =>
          onExecuteCommand(workspaceFolder, ruleFile, lastEvent.command,
                           lastEvent.arguments).rules = ruleFile

\* C16 witness: information was set over warning by the explicit override
C16_Witness ==
    /\ AdjustCall
    /\ lastEvent.arguments = << <<"warning", "info">> >>
    /\ returned = <<[severity |-> "information"]>>

\* the last step was a direct call of makeDiagnostic
MakeDiagnosticCall ==
    /\ lastEvent.kind = "call"
    /\ lastEvent.command = "makeDiagnostic"

\* C17: the range of the diagnostic made from a lint result has, for the
\* start and for the end separately, the result's line minus one and the
\* result's character minus one; nothing is clamped, so character 0 gives
\* character -1.
C17_RangeIsThePositionMinusOne ==
    MakeDiagnosticCall =>
        LET position == lastEvent.arguments[1][1].position
            range == returned[1].range
        IN  /\ range.start.line = position.start.line - 1
            /\ range.start.character = position.start.character - 1
            /\ range.end.line = position.end.line - 1
            /\ range.end.character = position.end.character - 1
            /\ position.start.character = 0 => range.start.character = -1
            /\ position.end.character = 0 => range.end.character = -1

\* C17 witness: a result from line 1, character 0 to line 2, character 2
\* gave the range from (0, -1) to (1, 1)
C17_Witness ==
    /\ MakeDiagnosticCall
    /\ lastEvent.arguments[1][1].position =
          [start |-> [line |-> 1, character |-> 0],
           end |-> [line |-> 2, character |-> 2]]
    /\ returned[1].range = [start |-> [line |-> 0, character |-> -1],
                            end |-> [line |-> 1, character |-> 1]]

\* the last handler run served a code-action request and returned actions
ActionsBuilt ==
    /\ lastEvent.kind = "codeAction"
    /\ returned # <<>>
    /\ returned[1] # <<>>

C19_TheLastWriterWins ==
    [][\A x \in ArgValues :
          SeverityCommandStep(x) =>
              /\ calls' \in {<<"readCurrentRules", "writeRuleFile">>,
                             <<"readCurrentRules", "externalWrite", "writeRuleFile">>}
              /\ OverrideApplied({i \in 1..Len(ruleFile) :
                                     String(ruleFile[i].ruleId) = String(x)})]_vars

\* C19 witness: the other program stores rules at warning and at hint only;
\* it stored a rule at warning, upgrade-severity read it, the other program
\* wrote again, and the command's write left the rule at error
C19_Witness ==
    /\ lastEvent.kind = "executeCommand"
    /\ lastEvent.command = applyUpgradeSeverity
    /\ lastEvent.arguments = << <<Num0>> >>
    /\ calls = <<"readCurrentRules", "externalWrite", "writeRuleFile">>
    /\ ruleFile = <<[ruleId |-> Num0, severity |-> "error"]>>

\* the severities from hint to error, and the severity k steps from one
\* of them: up for upgrade-severity, down for downgrade-severity, ending at
\* error and at hint
SeverityScale == <<"hint", "information", "warning", "error">>

RankOf(severity) == CHOOSE n \in 1..4 : SeverityScale[n] = severity

StepsFrom(severity, command, k) ==
    LET n == IF command = applyUpgradeSeverity
             THEN RankOf(severity) + k ELSE RankOf(severity) - k
    IN  SeverityScale[IF n > 4 THEN 4 ELSE IF n < 1 THEN 1 ELSE n]

RECURSIVE Repeated(_, _, _, _)
\* the rule file after k more executions of the command on rules
Repeated(rules, command, arguments, k) ==
    IF k = 0 THEN rules
    ELSE Repeated(onExecuteCommand(workspaceFolder, rules, command, arguments).rules,
                  command, arguments, k - 1)

\* C20: for a rule stored at a severity other than off, k consecutive
\* upgrade-severity commands with its identifier move its severity k steps
\* up, one step per command, until error, where it stays: it is error for
\* every k >= 3; k consecutive downgrade-severity commands move it down
\* in the same way until hint, where it stays.
C20_RepeatedCommandsReachTheFixedPoint ==
    [][\A x \in ArgValues :
          (/\ SeverityCommandStep(x)
           /\ lastEvent'.command \in {applyUpgradeSeverity, applyDowngradeSeverity}) =>
              \A i \in 1..Len(ruleFile) :
                  (ruleFile[i].ruleId = x /\ ruleFile[i].severity # "off") =>
                      \A k \in 1..MaxRepeat :
                          LET after == Repeated(ruleFile', lastEvent'.command,
                                                lastEvent'.arguments, k - 1)[i].severity
                          IN  /\ after = StepsFrom(ruleFile[i].severity,
                                                   lastEvent'.command, k)
                              /\ k >= 3 =>
                                    after = IF lastEvent'.command = applyUpgradeSeverity
                                            THEN "error" ELSE "hint"]_vars

\* C20 witness: downgrade-severity has moved a rule to information, which
\* it does from warning only, one step before the fixed point
C20_Witness ==
    /\ lastEvent.kind = "executeCommand"
    /\ lastEvent.command = applyDowngradeSeverity
    /\ lastEvent.arguments = << <<Num1>> >>
    /\ calls = <<"readCurrentRules", "writeRuleFile">>
    /\ ruleFile = <<[ruleId |-> Num1, severity |-> "information"]>>

\* the edit of a fix action: no change when the fix subsystem returned no
\* text, else one replacement of range by the text, addressed to the
\* document's URI and current version
EditWith(newText, range) ==
    IF newText = <<>>
    THEN [documentChanges |-> <<>>]
    ELSE [documentChanges |->
            <<[textDocument |-> [uri |-> lastEvent.uri,
                                 version |-> documents[lastEvent.uri].version],
               edits |-> <<[range |-> range, newText |-> newText[1]]>>]>>]

\* C21: a code-action request that reaches action building returns a list
\* which holds, for every diagnostic of this server, a single-fix action
\* whose edit has no document change when the fix subsystem returns no text
\* for the diagnostic's range, and else is one replacement of that range
\* addressed to the document's URI and current version; and which holds
\* the apply-all-fixes action, whose edit follows the same rule over the
\* range (0,0) to (lineCount-1, MAX_SAFE_INTEGER).
C21_FixActionsAreOfferedWithOrWithoutText ==
    ActionBuilding =>
        LET own == SelectSeq(lastEvent.diagnostics,
                             LAMBDA d : d.source = "devreplay")
            text == documents[lastEvent.uri].text
            whole == [start |-> [line |-> 0, character |-> 0],
                      end |-> [line |-> LineCount(text) - 1,
                               character |-> MAX_SAFE_INTEGER]]
        IN  /\ returned # <<>>
            /\ Len(returned[1]) >= 1 + 4 * Len(own)
            /\ returned[1][1].diagnostics = own
            /\ returned[1][1].edit = <<EditWith(fixWithRules(text, ruleFile), whole)>>
            /\ \A n \in 1..Len(own) :
                  /\ returned[1][4 * n - 2].diagnostics = <<own[n]>>
                  /\ \E rule \in [ruleId : RuleIds, severity : RuleSeverities] :
                        returned[1][4 * n - 2].edit =
                            <<EditWith(fixWithRule(GetText(text, own[n].range), rule),
                                       own[n].range)>>

\* the last step was a direct call of convertSeverityToDiagnostic
ConvertCall ==
    /\ lastEvent.kind = "call"
    /\ lastEvent.command = "convertSeverityToDiagnostic"

\* C22: the severity translator maps error, warning, information and hint
\* to Error, Warning, Information and Hint and every other value, off
\* among them, to Warning; so the diagnostic made from a lint result whose
\* rule is off has severity Warning.
C22_OtherSeveritiesBecomeWarning ==
    /\ ConvertCall =>
          LET severity == lastEvent.arguments[1][1].severity
          IN  returned[1].severity =
                  IF severity = "error" THEN "Error"
                  ELSE IF severity = "information" THEN "Information"
                  ELSE IF severity = "hint" THEN "Hint"
                  ELSE "Warning"
    /\ (MakeDiagnosticCall /\ lastEvent.arguments[1][1].rule.severity = "off") =>
          returned[1].severity = "Warning"

\* C22 witness: a diagnostic was made from a lint result whose rule is off
C22_Witness ==
    /\ MakeDiagnosticCall
    /\ lastEvent.arguments[1][1].rule.severity = "off"
    /\ returned[1].severity = "Warning"
    /\ returned[1].source = "devreplay"

\* C23: a rule stored at off stays at off, and keeps its place and its
\* identifier, whatever disable-rule, upgrade-severity or downgrade-severity
\* command the server executes.
C23_OffIsAbsorbing ==
    [][\A i \in 1..Len(ruleFile) :
          ruleFile[i].severity = "off" =>
              /\ i <= Len(ruleFile')
              /\ ruleFile'[i] = ruleFile[i]]_vars

\* C23 witness: upgrade-severity was executed in a workspace with the
\* identifier of the only rule, which is off, as upgrade leaves only a rule
\* that was off
C23_Witness ==
    /\ lastEvent.kind = "executeCommand"
    /\ lastEvent.command = applyUpgradeSeverity
    /\ lastEvent.arguments = << <<Num0>> >>
    /\ calls = <<"readCurrentRules", "writeRuleFile">>
    /\ ruleFile = <<[ruleId |-> Num0, severity |-> "off"]>>

\* C24: an execute-command request publishes nothing, runs no lint pass and
\* leaves the diagnostics the editor holds for every document as they
\* were; a code-action request publishes nothing either and leaves the rule
\* file as it was.
C24_CommandsAndCodeActionsPublishNothing ==
    [][/\ lastEvent'.kind = "executeCommand" =>
            /\ sent' = <<>>
            /\ published' = published
            /\ \A i \in 1..Len(calls') : calls'[i] # "lint"
       /\ lastEvent'.kind = "codeAction" =>
            /\ sent' = <<>>
            /\ published' = published
            /\ ruleFile' = ruleFile
            /\ \A i \in 1..Len(calls') : calls'[i] # "writeRuleFile"]_vars

\* C24 witness: upgrade-severity has stored the rule at error while the
\* editor still holds its diagnostic, for the open document, at Warning
C24_Witness ==
    /\ lastEvent.kind = "executeCommand"
    /\ lastEvent.command = applyUpgradeSeverity
    /\ ruleFile = <<[ruleId |-> Num0, severity |-> "error"]>>
    /\ documents[FileA].open
    /\ published[FileA] # <<>>
    /\ Len(published[FileA][1].diagnostics) = 1
    /\ published[FileA][1].diagnostics[1].severity = "Warning"

====
